---- MODULE Spec2Model ----
(***************************************************************************)
(* Model of the VideoHistory component                                     *)
(* (src/frontend/components/video-history.tsx).                            *)
(*                                                                         *)
(* The component keeps one piece of React state, `history`, and talks to   *)
(* two backends: the Supabase client (getVideoHistory,                     *)
(* removeVideoFromHistory, clearVideoHistory) and the localStorage slot    *)
(* 'videoHistory'.  Every `await` of the source is a suspension point: the *)
(* call is put in flight by one action and the code after the await runs   *)
(* in a later one.  A getVideoHistory call is answered by the remote store *)
(* at some moment in between, so the rows it returns can be out of date    *)
(* when the continuation runs.                                             *)
(***************************************************************************)
EXTENDS Bags, FiniteSets, Integers, Sequences, TLC

\* Largest number of remote calls of the component in flight at a time.
MaxInFlight == 2
\* Largest number of refresh signals counted in `trail`.
MaxTrail == 2

VARIABLES
    mounted,    \* the component is mounted
    userId,     \* const userId = user?.id || 'anonymous'
    history,    \* const [history, setHistory] = useState([])
    listeners,  \* 'videoHistoryUpdated' handlers registered on window
    loads,      \* bag of loadHistory calls suspended at the await of line 34
    writes,     \* bag of removeFromHistory / clearHistory calls suspended at their await
    localSlot,  \* raw content of localStorage['videoHistory']
    remote,     \* rows of the remote history table, per user
    calls,      \* remote calls issued by the last step
    toasts,     \* toasts shown by the last step
    events,     \* CustomEvents dispatched on window by the last step
    logs,       \* console.error lines written by the last step
    watch,      \* what is being observed: "none", "signals", "clears", ...
    trail       \* the observations made so far

vars == <<mounted, userId, history, listeners, loads, writes, localSlot,
          remote, calls, toasts, events, logs, watch, trail>>

----------------------------------------------------------------------------
(* Users and history items *)

Anonymous == "anonymous"
AuthUsers == {"u1"}
Users == AuthUsers \cup {Anonymous}

HistoryItem(i, t, u, ts, l, o) ==
    [id |-> i, title |-> t, url |-> u, timestamp |-> ts, language |-> l,
     user_id |-> o]

v1 == HistoryItem("v1", "first", "https://youtu.be/a", 1, "en", "u1")
v2 == HistoryItem("v2", "second", "https://youtu.be/b", 2, "fr", "u1")
v4 == HistoryItem("v4", "fourth", "https://youtu.be/c", 4, "de", Anonymous)

Items == {v1, v2, v4}

Ids(list) == {list[i].id : i \in 1..Len(list)}

\* history.filter(item => item.id !== id)
RECURSIVE FilterOut(_, _)
FilterOut(list, id) ==
    IF list = <<>> THEN <<>>
    ELSE IF Head(list).id # id
         THEN <<Head(list)>> \o FilterOut(Tail(list), id)
         ELSE FilterOut(Tail(list), id)

----------------------------------------------------------------------------
(* The localStorage slot and JSON.parse *)

Raw(k, xs) == [kind |-> k, items |-> xs]

\* getItem returns null / "" / text that is no JSON / a JSON object /
\* a JSON array.
SlotValues ==
    { Raw("null", <<>>), Raw("empty", <<>>), Raw("invalid", <<>>),
      Raw("object", <<>>), Raw("array", <<>>), Raw("array", <<v4>>) }

\* JSON.parse(savedHistory): throws on text that is no JSON.
JSONparse(raw) ==
    IF raw.kind \in {"empty", "invalid"}
    THEN [threw |-> TRUE, isArray |-> FALSE, items |-> <<>>]
    ELSE [threw |-> FALSE, isArray |-> raw.kind = "array", items |-> raw.items]

\* if (savedHistory): null and "" are falsy.
Truthy(raw) == raw.kind \notin {"null", "empty"}

\* loadFromLocalStorage whose catch block resets the list.
loadFromLocalStorage_ResetsOnError(h, raw) ==
    IF Truthy(raw)
    THEN LET parsedHistory == JSONparse(raw) IN
         IF parsedHistory.threw THEN <<>>
         ELSE IF parsedHistory.isArray /\ Len(parsedHistory.items) > 0
              THEN parsedHistory.items
              ELSE h
    ELSE h

\* loadFromLocalStorage: the value of `history` after the call, given the
\* value h before it.
loadFromLocalStorage(h, raw) ==
    IF Truthy(raw)
    THEN LET parsedHistory == JSONparse(raw) IN
         IF parsedHistory.threw THEN h
         ELSE IF parsedHistory.isArray /\ Len(parsedHistory.items) > 0
              THEN parsedHistory.items
              ELSE h
    ELSE h

\* localStorage.getItem('videoHistory') of loadFromLocalStorage.
GetItem == [op |-> "localStorage.getItem", arg |-> "videoHistory"]

\* console.error of the catch block of loadFromLocalStorage.
loadFromLocalStorageLogs(raw) ==
    IF Truthy(raw) /\ JSONparse(raw).threw THEN <<"parseFailed">> ELSE <<>>

----------------------------------------------------------------------------
(* Records of the calls in flight *)

Pending == [state |-> "pending", data |-> <<>>]
Failed == [state |-> "error", data |-> <<>>]
Ok(d) == [state |-> "ok", data |-> d]

LoadCall(u) == [user |-> u, resp |-> Pending]
RemoveCall(id, h) == [kind |-> "remove", arg |-> id, closure |-> h]
ClearCall(u) == [kind |-> "clear", arg |-> u, closure |-> <<>>]

One(x) == SetToBag({x})

Toast(t, d) == [title |-> t, description |-> d]

RemoveErrorToast == Toast("Error", "Failed to remove video from history")
RemovedToast == Toast("Removed from History", "Video removed from your history")
ClearErrorToast == Toast("Error", "Failed to clear history")
ClearedToast == Toast("History Cleared", "Your video history has been cleared")

----------------------------------------------------------------------------
(* The remote history table *)

\* The rows of a user, newest first.
RECURSIVE Newest(_)
Newest(rows) ==
    IF rows = {} THEN <<>>
    ELSE LET r == CHOOSE x \in rows : \A y \in rows : x.timestamp >= y.timestamp
         IN  <<r>> \o Newest(rows \ {r})

RowsOf(u) == {r \in remote : r.user_id = u}

----------------------------------------------------------------------------
(* Observations.  `watch` selects what a behaviour records in `trail`; it   *)
(* never changes, and neither variable is read by the component.           *)

\* "signals": one mark per 'videoHistoryUpdated' signal that started a load
\* while a getVideoHistory call was in flight, since the last moment
\* without one.
ObserveSignals(op) ==
    IF loads' = EmptyBag THEN <<>>
    ELSE IF /\ op = "HistoryUpdated" /\ mounted /\ loads # EmptyBag
            /\ BagCardinality(loads') > BagCardinality(loads)
            /\ Len(trail) < MaxTrail
         THEN Append(trail, "signal")
         ELSE trail

IsClear(w) == w.kind = "clear"

\* "clears": the list and the toasts left by the first two clearHistory
\* calls of the mounted component that succeeded while no other
\* clearHistory was in flight, the second one having found no row of the
\* user in the remote store.
ObserveClears(op, user, ok) ==
    IF /\ op = "clearHistoryDone" /\ ok /\ mounted /\ Len(trail) < 2
       /\ \A w \in BagToSet(writes') : ~IsClear(w)
       /\ trail = <<>> \/ RowsOf(user) = {}
    THEN Append(trail, [list |-> history', toasts |-> toasts'])
    ELSE trail

\* "refresh": for a step that delivers a 'videoHistoryUpdated' signal, whether
\* the component was mounted and how many loads the signal started
\* (getVideoHistory calls put in flight, reads of the local slot).
ObserveRefresh(op) ==
    IF op = "HistoryUpdated"
    THEN <<[mounted |-> mounted,
            fetches |-> BagCardinality(loads') - BagCardinality(loads),
            reads |-> Cardinality({i \in 1..Len(calls') : calls'[i] = GetItem})]>>
    ELSE <<>>

\* "writes": for a step that runs the continuation of removeFromHistory or
\* clearHistory, the answer of the remote store, the toasts shown and
\* whether the list was left as it was.
ObserveWrites(op, ok) ==
    IF op \in {"removeFromHistoryDone", "clearHistoryDone"}
    THEN <<[op |-> op, ok |-> ok, toasts |-> toasts', kept |-> history' = history]>>
    ELSE <<>>

\* "overlap": the kinds of the writes of the mounted component that
\* succeeded since the last click on a remove or clear button; two of them
\* were in flight together.
ObserveOverlap(op, ok) ==
    IF op \in {"removeFromHistory", "clearHistory"} THEN <<>>
    ELSE IF op \in {"removeFromHistoryDone", "clearHistoryDone"} /\ ok /\ mounted
            /\ Len(trail) < 2
         THEN Append(trail, op)
         ELSE trail

\* "cleared": set by a clearHistory of the mounted component that succeeded
\* with no other call in flight; dropped when an entry is recorded (remote
\* upsert, write to the local slot) and when the user changes.
ObserveCleared(op, ok) ==
    IF op \in {"RemoteUpsert", "LocalWrite", "UserChange", "Unmount"} THEN <<>>
    ELSE IF op = "clearHistoryDone" /\ ok /\ mounted
            /\ loads' = EmptyBag /\ writes' = EmptyBag
         THEN <<"cleared">>
         ELSE trail

\* "removed": the id of the last removeFromHistory of the mounted component
\* that succeeded with no other call in flight; dropped when an entry is
\* recorded and when the user changes.
ObserveRemoved(op, id, ok) ==
    IF op \in {"RemoteUpsert", "LocalWrite", "UserChange", "Unmount"} THEN <<>>
    ELSE IF op = "removeFromHistoryDone" /\ ok /\ mounted
            /\ loads' = EmptyBag /\ writes' = EmptyBag
         THEN <<id>>
         ELSE trail

\* arg is the userId of a clearHistory and the id of a removeFromHistory.
Observe(op, arg, ok) ==
    /\ watch' = watch
    /\ trail' = CASE watch = "signals" -> ObserveSignals(op)
                  [] watch = "clears" -> ObserveClears(op, arg, ok)
                  [] watch = "refresh" -> ObserveRefresh(op)
                  [] watch = "writes" -> ObserveWrites(op, ok)
                  [] watch = "overlap" -> ObserveOverlap(op, ok)
                  [] watch = "cleared" -> ObserveCleared(op, ok)
                  [] watch = "removed" -> ObserveRemoved(op, arg, ok)
                  [] OTHER -> trail

----------------------------------------------------------------------------
(* loadHistory up to its first suspension point *)

\* loadHistory without the test of line 32: every user is fetched remotely.
loadHistoryStart_AlwaysRemote(u) ==
    /\ loads' = loads (+) One(LoadCall(u))
    /\ calls' = <<[op |-> "getVideoHistory", arg |-> u]>>
    /\ history' = history
    /\ logs' = <<>>

\* loadHistory() called with the userId u of the effect's closure: the
\* anonymous branch runs to its end, the authenticated one suspends.
loadHistoryStart(u) ==
    IF u # Anonymous
    THEN /\ loads' = loads (+) One(LoadCall(u))
         /\ calls' = <<[op |-> "getVideoHistory", arg |-> u]>>
         /\ history' = history
         /\ logs' = <<>>
    ELSE /\ loads' = loads
         /\ calls' = <<GetItem>>
         /\ history' = loadFromLocalStorage(history, localSlot)
         /\ logs' = loadFromLocalStorageLogs(localSlot)

InFlight == BagCardinality(loads) + BagCardinality(writes)

CanLoad(u) == u # Anonymous => InFlight < MaxInFlight

\* The state after the first render and the first run of the effect:
\* useState([]), loadHistory(), addEventListener.
InitComponent ==
    /\ mounted = TRUE
    /\ userId \in Users
    /\ localSlot \in SlotValues
    /\ remote = {v1, v2}
    /\ listeners = One(userId)
    /\ loads = IF userId # Anonymous THEN One(LoadCall(userId)) ELSE EmptyBag
    /\ history = IF userId # Anonymous THEN <<>>
                 ELSE loadFromLocalStorage(<<>>, localSlot)
    /\ writes = EmptyBag
    /\ calls = IF userId # Anonymous
               THEN <<[op |-> "getVideoHistory", arg |-> userId]>> ELSE <<GetItem>>
    /\ toasts = <<>>
    /\ events = <<>>
    /\ logs = IF userId # Anonymous THEN <<>> ELSE loadFromLocalStorageLogs(localSlot)

\* The auth context changes user: while mounted the effect of [userId] is
\* cleaned up (removeEventListener) and run again for the new userId; the
\* state `history` is kept across the re-render.
UserChange(u) ==
    /\ mounted
    /\ u # userId
    /\ userId' = u
    /\ CanLoad(u)
    /\ loadHistoryStart(u)
    /\ listeners' = (listeners (-) One(userId)) (+) One(u)
    /\ toasts' = <<>>
    /\ events' = <<>>
    /\ UNCHANGED <<mounted, writes, localSlot, remote>>
    /\ Observe("UserChange", Anonymous, FALSE)

\* Unmount whose cleanup leaves the event listener registered.
Unmount_KeepsListener ==
    /\ mounted
    /\ mounted' = FALSE
    /\ listeners' = listeners
    /\ history' = <<>>
    /\ UNCHANGED <<loads, writes>>
    /\ calls' = <<>>
    /\ toasts' = <<>>
    /\ events' = <<>>
    /\ logs' = <<>>
    /\ UNCHANGED <<userId, localSlot, remote>>
    /\ Observe("Unmount", Anonymous, FALSE)

\* Unmount: the effect's cleanup runs and the state of the instance is
\* dropped; setHistory of a call still in flight no longer has any effect.
Unmount ==
    /\ mounted
    /\ mounted' = FALSE
    /\ listeners' = listeners (-) One(userId)
    /\ history' = <<>>
    /\ UNCHANGED <<loads, writes>>
    /\ calls' = <<>>
    /\ toasts' = <<>>
    /\ events' = <<>>
    /\ logs' = <<>>
    /\ UNCHANGED <<userId, localSlot, remote>>
    /\ Observe("Unmount", Anonymous, FALSE)

\* window.dispatchEvent(new Event('videoHistoryUpdated')): every registered
\* handleHistoryUpdated calls the loadHistory of its effect.
HistoryUpdated ==
    LET auth == [u \in {x \in BagToSet(listeners) : x # Anonymous} |-> listeners[u]]
    IN  /\ InFlight + BagCardinality(auth) <= MaxInFlight
        /\ loads' = loads (+) BagOfAll(LoadCall, auth)
        /\ calls' = (IF auth = EmptyBag THEN <<>>
                     ELSE <<[op |-> "getVideoHistory",
                             arg |-> CHOOSE u \in BagToSet(auth) : TRUE]>>)
                    \o (IF BagIn(Anonymous, listeners) THEN <<GetItem>> ELSE <<>>)
        /\ IF BagIn(Anonymous, listeners)
           THEN /\ history' = loadFromLocalStorage(history, localSlot)
                /\ logs' = loadFromLocalStorageLogs(localSlot)
           ELSE /\ history' = history
                /\ logs' = <<>>
        /\ toasts' = <<>>
        /\ events' = <<>>
        /\ UNCHANGED <<mounted, userId, listeners, writes, localSlot, remote>>
        /\ Observe("HistoryUpdated", Anonymous, FALSE)

----------------------------------------------------------------------------
(* The remote store: answers to the calls in flight *)

\* getVideoHistory(userId) resolves to { data, error }.
getVideoHistory(l) ==
    /\ BagIn(l, loads)
    /\ l.resp = Pending
    /\ \E r \in {Failed, Ok(Newest(RowsOf(l.user)))} :
         loads' = (loads (-) One(l)) (+) One([l EXCEPT !.resp = r])
    /\ calls' = <<>>
    /\ toasts' = <<>>
    /\ events' = <<>>
    /\ logs' = <<>>
    /\ UNCHANGED <<mounted, userId, history, listeners, writes, localSlot, remote>>
    /\ Observe("getVideoHistory", Anonymous, FALSE)

\* removeVideoFromHistory(id) resolves to { error }; when it succeeds the
\* row with that id is gone.
removeVideoFromHistory(id, r) ==
    remote' = IF r = Failed THEN remote ELSE {x \in remote : x.id # id}

\* clearVideoHistory(userId) resolves to { error }; when it succeeds the rows
\* of that user are gone.
clearVideoHistory(u, r) ==
    remote' = IF r = Failed THEN remote ELSE remote \ RowsOf(u)

----------------------------------------------------------------------------
(* Continuations of the component *)

\* setHistory(x) of an instance that has been unmounted changes nothing.
setHistory(x) == history' = IF mounted THEN x ELSE history

\* loadHistory that lets the entries of the local slot replace the rows of
\* the remote store.
loadHistoryDone_PrefersLocal(l) ==
    /\ BagIn(l, loads)
    /\ l.resp # Pending
    /\ loads' = loads (-) One(l)
    /\ IF l.resp.state = "error"
       THEN /\ setHistory(loadFromLocalStorage(history, localSlot))
            /\ logs' = <<"fetchFailed">> \o loadFromLocalStorageLogs(localSlot)
            /\ calls' = <<GetItem>>
       ELSE IF Len(l.resp.data) > 0
            THEN /\ setHistory(loadFromLocalStorage(l.resp.data, localSlot))
                 /\ logs' = <<>>
                 /\ calls' = <<>>
            ELSE /\ setHistory(loadFromLocalStorage(history, localSlot))
                 /\ logs' = loadFromLocalStorageLogs(localSlot)
                 /\ calls' = <<GetItem>>
    /\ toasts' = <<>>
    /\ events' = <<>>
    /\ UNCHANGED <<mounted, userId, listeners, writes, localSlot, remote>>
    /\ Observe("loadHistoryDone", Anonymous, FALSE)

\* loadHistory that takes an empty answer of the remote store as the list.
loadHistoryDone_TrustsEmpty(l) ==
    /\ BagIn(l, loads)
    /\ l.resp # Pending
    /\ loads' = loads (-) One(l)
    /\ IF l.resp.state = "error"
       THEN /\ setHistory(loadFromLocalStorage(history, localSlot))
            /\ logs' = <<"fetchFailed">> \o loadFromLocalStorageLogs(localSlot)
            /\ calls' = <<GetItem>>
       ELSE /\ setHistory(l.resp.data)
            /\ logs' = <<>>
            /\ calls' = <<>>
    /\ toasts' = <<>>
    /\ events' = <<>>
    /\ UNCHANGED <<mounted, userId, listeners, writes, localSlot, remote>>
    /\ Observe("loadHistoryDone", Anonymous, FALSE)

\* loadHistory after `await getVideoHistory(userId)`, lines 36-48.
loadHistoryDone(l) ==
    /\ BagIn(l, loads)
    /\ l.resp # Pending
    /\ loads' = loads (-) One(l)
    /\ IF l.resp.state = "error"
       THEN /\ setHistory(loadFromLocalStorage(history, localSlot))
            /\ logs' = <<"fetchFailed">> \o loadFromLocalStorageLogs(localSlot)
            /\ calls' = <<GetItem>>
       ELSE IF Len(l.resp.data) > 0
            THEN /\ setHistory(l.resp.data)
                 /\ logs' = <<>>
                 /\ calls' = <<>>
            ELSE /\ setHistory(loadFromLocalStorage(history, localSlot))
                 /\ logs' = loadFromLocalStorageLogs(localSlot)
                 /\ calls' = <<GetItem>>
    /\ toasts' = <<>>
    /\ events' = <<>>
    /\ UNCHANGED <<mounted, userId, listeners, writes, localSlot, remote>>
    /\ Observe("loadHistoryDone", Anonymous, FALSE)

\* handleReprocess with the language of the event fixed instead of the item's.
handleReprocess_FixedLanguage(item) ==
    /\ mounted
    /\ \E i \in 1..Len(history) : history[i] = item
    /\ events' = <<[type |-> "reprocessVideo",
                    detail |-> [url |-> item.url, language |-> "en"]]>>
    /\ toasts' = <<Toast("Reprocessing Video", item.title)>>
    /\ calls' = <<>>
    /\ logs' = <<>>
    /\ UNCHANGED <<mounted, userId, history, listeners, loads, writes, localSlot, remote>>
    /\ Observe("handleReprocess", Anonymous, FALSE)

\* handleReprocess(item), lines 84-95.
handleReprocess(item) ==
    /\ mounted
    /\ \E i \in 1..Len(history) : history[i] = item
    /\ events' = <<[type |-> "reprocessVideo",
                    detail |-> [url |-> item.url, language |-> item.language]]>>
    /\ toasts' = <<Toast("Reprocessing Video", item.title)>>
    /\ calls' = <<>>
    /\ logs' = <<>>
    /\ UNCHANGED <<mounted, userId, history, listeners, loads, writes, localSlot, remote>>
    /\ Observe("handleReprocess", Anonymous, FALSE)

\* removeFromHistory(id) up to its await, line 98: the button of a listed
\* item is clicked; the continuation keeps the `history` of this render.
removeFromHistory(id) ==
    /\ mounted
    /\ id \in Ids(history)
    /\ InFlight < MaxInFlight
    /\ writes' = writes (+) One(RemoveCall(id, history))
    /\ calls' = <<[op |-> "removeVideoFromHistory", arg |-> id]>>
    /\ toasts' = <<>>
    /\ events' = <<>>
    /\ logs' = <<>>
    /\ UNCHANGED <<mounted, userId, history, listeners, loads, localSlot, remote>>
    /\ Observe("removeFromHistory", Anonymous, FALSE)

\* removeFromHistory without the `return` of line 106: a failed removal
\* falls through to setHistory and the second toast.
removeFromHistoryDone_NoReturn(w, r) ==
    /\ BagIn(w, writes)
    /\ w.kind = "remove"
    /\ writes' = writes (-) One(w)
    /\ removeVideoFromHistory(w.arg, r)
    /\ setHistory(FilterOut(w.closure, w.arg))
    /\ toasts' = IF r.state = "error" THEN <<RemoveErrorToast, RemovedToast>>
                 ELSE <<RemovedToast>>
    /\ calls' = <<>>
    /\ events' = <<>>
    /\ logs' = <<>>
    /\ UNCHANGED <<mounted, userId, listeners, loads, localSlot>>
    /\ Observe("removeFromHistoryDone", w.arg, r # Failed)

\* removeFromHistory that filters the current list (functional update)
\* instead of the list of the render of the click.
removeFromHistoryDone_FunctionalUpdate(w, r) ==
    /\ BagIn(w, writes)
    /\ w.kind = "remove"
    /\ writes' = writes (-) One(w)
    /\ removeVideoFromHistory(w.arg, r)
    /\ IF r.state = "error"
       THEN /\ toasts' = <<RemoveErrorToast>>
            /\ history' = history
       ELSE /\ setHistory(FilterOut(history, w.arg))
            /\ toasts' = <<RemovedToast>>
    /\ calls' = <<>>
    /\ events' = <<>>
    /\ logs' = <<>>
    /\ UNCHANGED <<mounted, userId, listeners, loads, localSlot>>
    /\ Observe("removeFromHistoryDone", w.arg, r # Failed)

\* removeFromHistory after its await, lines 100-114.
removeFromHistoryDone(w, r) ==
    /\ BagIn(w, writes)
    /\ w.kind = "remove"
    /\ writes' = writes (-) One(w)
    /\ removeVideoFromHistory(w.arg, r)
    /\ IF r.state = "error"
       THEN /\ toasts' = <<RemoveErrorToast>>
            /\ history' = history
       ELSE /\ setHistory(FilterOut(w.closure, w.arg))
            /\ toasts' = <<RemovedToast>>
    /\ calls' = <<>>
    /\ events' = <<>>
    /\ logs' = <<>>
    /\ UNCHANGED <<mounted, userId, listeners, loads, localSlot>>
    /\ Observe("removeFromHistoryDone", w.arg, r # Failed)

\* clearHistory up to its await, line 118: 'Clear All' is rendered only
\* while the list is not empty (line 143).
clearHistory ==
    /\ mounted
    /\ Len(history) > 0
    /\ InFlight < MaxInFlight
    /\ writes' = writes (+) One(ClearCall(userId))
    /\ calls' = <<[op |-> "clearVideoHistory", arg |-> userId]>>
    /\ toasts' = <<>>
    /\ events' = <<>>
    /\ logs' = <<>>
    /\ UNCHANGED <<mounted, userId, history, listeners, loads, localSlot, remote>>
    /\ Observe("clearHistory", Anonymous, FALSE)

\* clearHistory without the setHistory([]) of line 129.
clearHistoryDone_KeepsList(w, r) ==
    /\ BagIn(w, writes)
    /\ w.kind = "clear"
    /\ writes' = writes (-) One(w)
    /\ clearVideoHistory(w.arg, r)
    /\ history' = history
    /\ toasts' = IF r.state = "error" THEN <<ClearErrorToast>> ELSE <<ClearedToast>>
    /\ calls' = <<>>
    /\ events' = <<>>
    /\ logs' = <<>>
    /\ UNCHANGED <<mounted, userId, listeners, loads, localSlot>>
    /\ Observe("clearHistoryDone", w.arg, r # Failed)

\* clearHistory without the `return` of line 126: a failed clear falls
\* through to setHistory([]) and the second toast.
clearHistoryDone_NoReturn(w, r) ==
    /\ BagIn(w, writes)
    /\ w.kind = "clear"
    /\ writes' = writes (-) One(w)
    /\ clearVideoHistory(w.arg, r)
    /\ setHistory(<<>>)
    /\ toasts' = IF r.state = "error" THEN <<ClearErrorToast, ClearedToast>>
                 ELSE <<ClearedToast>>
    /\ calls' = <<>>
    /\ events' = <<>>
    /\ logs' = <<>>
    /\ UNCHANGED <<mounted, userId, listeners, loads, localSlot>>
    /\ Observe("clearHistoryDone", w.arg, r # Failed)

\* clearHistory after its await, lines 120-134.
clearHistoryDone(w, r) ==
    /\ BagIn(w, writes)
    /\ w.kind = "clear"
    /\ writes' = writes (-) One(w)
    /\ clearVideoHistory(w.arg, r)
    /\ IF r.state = "error"
       THEN /\ toasts' = <<ClearErrorToast>>
            /\ history' = history
       ELSE /\ setHistory(<<>>)
            /\ toasts' = <<ClearedToast>>
    /\ calls' = <<>>
    /\ events' = <<>>
    /\ logs' = <<>>
    /\ UNCHANGED <<mounted, userId, listeners, loads, localSlot>>
    /\ Observe("clearHistoryDone", w.arg, r # Failed)

----------------------------------------------------------------------------
(* The rest of the application *)

\* Some other code stores a value in localStorage['videoHistory'].
LocalWrite(raw) ==
    /\ raw # localSlot
    /\ localSlot' = raw
    /\ calls' = <<>>
    /\ toasts' = <<>>
    /\ events' = <<>>
    /\ logs' = <<>>
    /\ UNCHANGED <<mounted, userId, history, listeners, loads, writes, remote>>
    /\ Observe("LocalWrite", Anonymous, FALSE)

\* The ingestion pipeline records an item for its owner in the remote store.
RemoteUpsert(item) ==
    /\ item.user_id \in AuthUsers
    /\ item \notin remote
    /\ remote' = remote \cup {item}
    /\ calls' = <<>>
    /\ toasts' = <<>>
    /\ events' = <<>>
    /\ logs' = <<>>
    /\ UNCHANGED <<mounted, userId, history, listeners, loads, writes, localSlot>>
    /\ Observe("RemoteUpsert", Anonymous, FALSE)

----------------------------------------------------------------------------

Next ==
    \/ \E u \in Users : UserChange(u)
    \/ Unmount
    \/ HistoryUpdated
    \/ \E l \in BagToSet(loads) : getVideoHistory(l)
    \/ \E l \in BagToSet(loads) : loadHistoryDone(l)
    \/ \E item \in Items : handleReprocess(item)
    \/ \E id \in Ids(history) : removeFromHistory(id)
    \/ \E w \in BagToSet(writes), r \in {Failed, Ok(<<>>)} : removeFromHistoryDone(w, r)
    \/ clearHistory
    \/ \E w \in BagToSet(writes), r \in {Failed, Ok(<<>>)} : clearHistoryDone(w, r)
    \/ \E raw \in SlotValues : LocalWrite(raw)
    \/ \E item \in Items : RemoteUpsert(item)

Init == InitComponent /\ watch = "none" /\ trail = <<>>

Spec == Init /\ [][Next]_vars

InitSignals == InitComponent /\ watch = "signals" /\ trail = <<>>

SpecSignals == InitSignals /\ [][Next]_vars

InitClears == InitComponent /\ watch = "clears" /\ trail = <<>>

SpecClears == InitClears /\ [][Next]_vars

InitRefresh == InitComponent /\ watch = "refresh" /\ trail = <<>>

SpecRefresh == InitRefresh /\ [][Next]_vars

InitWrites == InitComponent /\ watch = "writes" /\ trail = <<>>

SpecWrites == InitWrites /\ [][Next]_vars

InitOverlap == InitComponent /\ watch = "overlap" /\ trail = <<>>

SpecOverlap == InitOverlap /\ [][Next]_vars

InitCleared == InitComponent /\ watch = "cleared" /\ trail = <<>>

SpecCleared == InitCleared /\ [][Next]_vars

InitRemoved == InitComponent /\ watch = "removed" /\ trail = <<>>

SpecRemoved == InitRemoved /\ [][Next]_vars

----------------------------------------------------------------------------
(* Properties *)

\* LocalCache.read() as specified: the parsed slot, or the empty list when
\* the slot is absent, corrupt, not an array or an empty array.
LocalCacheRead(raw) == IF raw.kind = "array" THEN raw.items ELSE <<>>

\* The list a load is specified to produce from the answer of the remote
\* store: the rows when there are any, LocalCache.read() otherwise.
LoadResult(l, raw) ==
    IF l.resp.state = "ok" /\ Len(l.resp.data) > 0 THEN l.resp.data
    ELSE LocalCacheRead(raw)

\* C1: for an authenticated user, right after a load whose getVideoHistory
\* returned an error, the in-memory list equals LocalCache.read().
C1_FallbackIsLocalRead ==
    (mounted /\ userId # Anonymous /\ logs # <<>> /\ Head(logs) = "fetchFailed")
        => history = LocalCacheRead(localSlot)

\* C2: the success callback of remove(id) leaves the list it found, minus
\* exactly the entry with that id, whatever completed since the click.
C2_RemoveSuccessRemovesOnlyThatEntry ==
    [][\A w \in BagToSet(writes) :
          (mounted /\ w.kind = "remove" /\ writes' = writes (-) One(w)
             /\ toasts' = <<RemovedToast>>)
              => history' = FilterOut(history, w.arg)]_vars

\* C3: a remove that reports failure leaves the in-memory list as it was.
C3_RemoveFailureKeepsList ==
    [][(toasts' # <<>> /\ Head(toasts') = RemoveErrorToast) => history' = history]_vars

C3_Witness == mounted /\ toasts = <<RemoveErrorToast>> /\ history # <<>>

\* C4: a load for the anonymous user that finds invalid JSON or a JSON value
\* that is no array in the slot ends with an empty in-memory list.
C4_AnonymousLoadOfBadSlotIsEmpty ==
    [][(mounted' /\ userId' = Anonymous /\ loads' = loads /\ calls' = <<GetItem>>
          /\ localSlot.kind \in {"invalid", "object"})
           => history' = <<>>]_vars

\* C5: while userId is 'anonymous' no step calls getVideoHistory or puts a
\* new call in flight; a load reads only the local slot.
C5_AnonymousLoadNeverFetches ==
    [][userId' = Anonymous =>
          /\ \A i \in 1..Len(calls') : calls'[i].op # "getVideoHistory"
          /\ \A l \in BagToSet(loads') :
                l.resp = Pending => CopiesIn(l, loads') <= CopiesIn(l, loads)]_vars

C5_Witness ==
    /\ mounted
    /\ userId = Anonymous
    /\ calls = <<GetItem>>
    /\ loads = One(LoadCall("u1"))

\* C6: after two refresh signals published while a load was in flight, when
\* the last load in flight completes the list holds that load's data.
C6_LastCompletedLoadWins ==
    [][\A l \in BagToSet(loads) :
          (mounted /\ watch = "signals" /\ Len(trail) >= 2 /\ l.user = userId
             /\ loads = One(l) /\ loads' = EmptyBag)
              => history' = LoadResult(l, localSlot)]_vars

\* C7: clears in sequence that the remote store accepts all show the
\* success toast and leave the in-memory list empty.
C7_ClearTwiceLeavesEmpty ==
    watch = "clears" =>
        \A i \in 1..Len(trail) :
            trail[i].list = <<>> /\ trail[i].toasts = <<ClearedToast>>

C7_Witness ==
    /\ watch = "clears"
    /\ Len(trail) >= 2
    /\ trail[1].list = <<>>
    /\ trail[2].list = <<>>

\* C8: the reprocess trigger of a listed entry dispatches exactly one
\* 'reprocessVideo' event carrying the url and the language of that entry,
\* and changes neither the list, nor the slot, nor the remote store.
C8_ReprocessDispatchesOnce ==
    [][(events' # <<>> \/ (toasts' # <<>> /\ Head(toasts').title = "Reprocessing Video"))
          => /\ \E i \in 1..Len(history) :
                  /\ Head(toasts').description = history[i].title
                  /\ events' = <<[type |-> "reprocessVideo",
                                  detail |-> [url |-> history[i].url,
                                              language |-> history[i].language]]>>
             /\ UNCHANGED <<history, localSlot, remote>>]_vars

C8_Witness == mounted /\ Len(events) = 1 /\ Len(history) > 1

\* C9: clear calls clearVideoHistory with the current userId; an error
\* leaves the in-memory list as it was, success makes it empty.
C9_ClearFollowsRemoteAnswer ==
    [][/\ (\E i \in 1..Len(calls') : calls'[i].op = "clearVideoHistory")
            => calls' = <<[op |-> "clearVideoHistory", arg |-> userId]>>
       /\ (toasts' # <<>> /\ Head(toasts') = ClearErrorToast) => history' = history
       /\ (toasts' # <<>> /\ Head(toasts') = ClearedToast) => history' = <<>>]_vars

C9_Witness == mounted /\ toasts = <<ClearErrorToast>> /\ history # <<>>

\* C10: the result of a load that was started for another userId than the
\* current one is never written into the in-memory list.
C10_StaleLoadNeverApplied ==
    [][\A l \in BagToSet(loads) :
          (loads' = loads (-) One(l) /\ l.user # userId) => history' = history]_vars

\* C11: at every moment at most one handler of 'videoHistoryUpdated' is
\* registered: the one of the current userId while mounted, none after
\* teardown; a signal delivered while mounted starts exactly one load (one
\* getVideoHistory call or one read of the local slot), a signal delivered
\* after teardown starts none.
C11_OneHandlerOneLoadPerSignal ==
    /\ BagCardinality(listeners) <= 1
    /\ listeners = IF mounted THEN One(userId) ELSE EmptyBag
    /\ (watch = "refresh" /\ trail # <<>>)
          => trail[1].fetches + trail[1].reads = IF trail[1].mounted THEN 1 ELSE 0

C11_Witness ==
    /\ watch = "refresh" /\ trail # <<>>
    /\ trail[1].mounted /\ trail[1].fetches = 1 /\ BagCardinality(loads) = 2

\* C12: a remove or clear whose remote call reports an error shows exactly
\* its failure toast, no success toast, and leaves the list as it was; one
\* whose remote call succeeds shows exactly its success toast and no
\* failure toast.
C12_OneToastPerWrite ==
    (watch = "writes" /\ trail # <<>>)
        => LET o == trail[1]
               isRemove == o.op = "removeFromHistoryDone"
           IN  IF o.ok
               THEN o.toasts = <<IF isRemove THEN RemovedToast ELSE ClearedToast>>
               ELSE /\ o.toasts = <<IF isRemove THEN RemoveErrorToast
                                               ELSE ClearErrorToast>>
                    /\ o.kept

C12_Witness ==
    /\ watch = "writes" /\ trail # <<>>
    /\ ~trail[1].ok /\ trail[1].op = "removeFromHistoryDone"
    /\ mounted /\ Len(history) > 1

\* C13: when getVideoHistory of an authenticated user succeeds with a
\* non-empty list, the in-memory list becomes exactly that list, in the
\* order returned, and the local slot is neither read nor written.
C13_RemoteListTakenAsIs ==
    [][\A l \in BagToSet(loads) :
          (mounted /\ l.user # Anonymous /\ l.resp.state = "ok"
             /\ Len(l.resp.data) > 0 /\ loads' = loads (-) One(l))
              => (history' = l.resp.data /\ localSlot' = localSlot /\ calls' = <<>>)]_vars

C13_Witness ==
    /\ mounted /\ userId = "u1" /\ loads = EmptyBag
    /\ history = <<v2, v1>> /\ localSlot = Raw("array", <<v4>>) /\ calls = <<>>

\* C14: when getVideoHistory of an authenticated user succeeds with an
\* empty list, the load reads the local slot; if the slot holds a non-empty
\* array, the in-memory list becomes that array.
C14_EmptyRemoteFallsBackToLocal ==
    [][\A l \in BagToSet(loads) :
          (mounted /\ l.user # Anonymous /\ l.resp.state = "ok"
             /\ Len(l.resp.data) = 0 /\ loads' = loads (-) One(l))
              => /\ calls' = <<GetItem>>
                 /\ (localSlot.kind = "array" /\ Len(localSlot.items) > 0)
                       => history' = localSlot.items]_vars

C14_Witness ==
    /\ mounted /\ userId = "u1" /\ RowsOf("u1") = {}
    /\ calls = <<GetItem>> /\ logs = <<>> /\ history = <<v4>>

\* C15: a load whose read of the local slot fails on a corrupt payload
\* swallows the failure and keeps the list: empty on the first load, the
\* list held before the load otherwise.
C15_CorruptSlotKeepsList ==
    /\ (logs # <<>> /\ logs[Len(logs)] = "parseFailed") => history = <<>>
    /\ [][(logs' # <<>> /\ logs'[Len(logs')] = "parseFailed")
             => history' = history]_vars

C15_Witness ==
    /\ mounted /\ logs # <<>> /\ logs[Len(logs)] = "parseFailed"
    /\ history = <<v2, v1>>

\* C16: when a remove and a clear were in flight together and both
\* succeed, the list is the one written by the success callback that runs
\* last: empty when that is the clear, the list of the render of the remove
\* click minus the removed entry when that is the remove.
C16_LastWriteCallbackWins ==
    [][\A w \in BagToSet(writes) :
          (/\ watch = "overlap" /\ mounted /\ writes' = writes (-) One(w)
           /\ Len(trail) = 1 /\ Len(trail') = 2
           /\ trail'[1] # trail'[2])
              => history' = IF w.kind = "clear" THEN <<>>
                            ELSE FilterOut(w.closure, w.arg)]_vars

C16_Witness ==
    /\ watch = "overlap" /\ mounted
    /\ trail = <<"clearHistoryDone", "removeFromHistoryDone">>
    /\ toasts = <<RemovedToast>> /\ history # <<>>

\* C17: after a clear succeeded, and as long as no entry is recorded (no
\* remote upsert, no write to the local slot), the in-memory list is empty
\* after every later load.
C17_ClearedEntriesStayGone ==
    (watch = "cleared" /\ trail # <<>> /\ mounted) => history = <<>>

\* C18: after remove(id) succeeded, and as long as no entry is recorded, no
\* later load puts an entry with that id back into the in-memory list.
C18_RemovedEntryStaysGone ==
    (watch = "removed" /\ trail # <<>> /\ mounted) => trail[1] \notin Ids(history)

\* C19: once the user has changed to the anonymous context and its load
\* has completed with no call in flight, the in-memory list holds no entry
\* of the remote history of an authenticated user.
C19_NoEntryOfPreviousUser ==
    (mounted /\ userId = Anonymous /\ loads = EmptyBag /\ writes = EmptyBag)
        => \A i \in 1..Len(history) : history[i].user_id \notin AuthUsers

====
